---- MODULE Spec2Model ----
(***************************************************************************)
(* A model of lua-mosquitto.c, the Lua binding to libmosquitto.            *)
(*                                                                         *)
(* The binding keeps one ctx_t per client instance: the lua_State the      *)
(* callbacks run on (ctx->L), the engine handle (ctx->mosq) and seven      *)
(* registry references, one per callback type.  The engine (libmosquitto)  *)
(* is the environment: it returns result codes and calls the registered    *)
(* C callbacks back, either on the caller's thread from inside a call, or  *)
(* on its own thread once loop_start has started one.                      *)
(***************************************************************************)
EXTENDS Integers, Sequences, FiniteSets, TLC

(***************************************************************************)
(* Bounds of the model.                                                    *)
(***************************************************************************)
\* number of registry slots luaL_ref may hand out
MaxRefs == 2
\* depth of the caller thread's stack of C calls and running hooks (a hook at
\* this depth may still make one loop call)
MaxDepth == 2
\* number of message ids the engine hands out to an instance
MaxMid == 2
MaxAttempts == 5

(***************************************************************************)
(* Program constants.                                                      *)
(***************************************************************************)
CONNECT == 16
PUBLISH == 48
SUBSCRIBE == 128
UNSUBSCRIBE == 160
DISCONNECT == 224
MESSAGE == 1
LOG == 2

MOSQ_LOG_NONE == 0
MOSQ_LOG_INFO == 1
MOSQ_LOG_NOTICE == 2
MOSQ_LOG_WARNING == 4
MOSQ_LOG_ERR == 8
MOSQ_LOG_DEBUG == 16
MOSQ_LOG_ALL == 65535

LUA_REFNIL == -1

MOSQ_ERR_SUCCESS == 0
MOSQ_ERR_NOMEM == 1
MOSQ_ERR_PROTOCOL == 2
MOSQ_ERR_INVAL == 3
MOSQ_ERR_NO_CONN == 4
MOSQ_ERR_CONN_LOST == 7
MOSQ_ERR_PAYLOAD_SIZE == 9
MOSQ_ERR_NOT_SUPPORTED == 10
MOSQ_ERR_ERRNO == 14
\* two of the engine's codes that mosq__pstatus has no case for
MOSQ_ERR_TLS == 8
MOSQ_ERR_EAI == 15

CONN_ACCEPT == 0
CONN_REF_BAD_PROTOCOL == 1
CONN_REF_BAD_ID == 2
CONN_REF_SERVER_NOAVAIL == 3
CONN_REF_BAD_LOGIN == 4
CONN_REF_NO_AUTH == 5
CONN_REF_BAD_TLS == 6

CallbackTypes == {CONNECT, DISCONNECT, PUBLISH, MESSAGE, SUBSCRIBE, UNSUBSCRIBE, LOG}

(***************************************************************************)
(* Lua values on the C stack.  A string is the sequence of its characters, *)
(* so that prefix tests and comparisons are computed, not assumed.         *)
(***************************************************************************)
VNone == [t |-> "none", s |-> <<>>, n |-> 0, b |-> FALSE]
VNil == [t |-> "nil", s |-> <<>>, n |-> 0, b |-> FALSE]
VBool(x) == [t |-> "boolean", s |-> <<>>, n |-> 0, b |-> x]
VNum(x) == [t |-> "number", s |-> <<>>, n |-> x, b |-> FALSE]
VStr(x) == [t |-> "string", s |-> x, n |-> 0, b |-> FALSE]
VFun(h) == [t |-> "function", s |-> <<h>>, n |-> 0, b |-> FALSE]
VTable == [t |-> "table", s |-> <<>>, n |-> 0, b |-> FALSE]
VUdata == [t |-> "userdata", s |-> <<>>, n |-> 0, b |-> FALSE]

\* the value at stack index i; an index above the top is LUA_TNONE
Arg(stk, i) == IF i <= Len(stk) THEN stk[i] ELSE VNone

lua_isnoneornil(v) == v.t \in {"none", "nil"}
lua_isboolean(v) == v.t = "boolean"
lua_toboolean(v) == IF v.t \in {"none", "nil"} THEN FALSE ELSE IF v.t = "boolean" THEN v.b ELSE TRUE
\* lua_isstring is true of strings and of numbers (a number converts to a string)
lua_isstring(v) == v.t \in {"string", "number"}
lua_isfunction(v) == v.t = "function"

Digit(d) == <<"0", "1", "2", "3", "4", "5", "6", "7", "8", "9">>[d + 1]

RECURSIVE Decimal(_)
Decimal(n) == IF n < 10 THEN <<Digit(n)>> ELSE Decimal(n \div 10) \o <<Digit(n % 10)>>

\* lua_tostring: a string as it is, a number as its decimal text
lua_tostring(v) == IF v.t = "string" THEN v.s ELSE Decimal(v.n)

\* luaL_optstring(L, i, NULL): the default for none or nil, the string for a string
\* or a number, and a raised type error for any other value
luaL_optstring_lenient(v) ==
    IF lua_isnoneornil(v) THEN [err |-> FALSE, null |-> TRUE]
    ELSE [err |-> FALSE, null |-> FALSE]

luaL_optstring(v) ==
    IF lua_isnoneornil(v) THEN [err |-> FALSE, null |-> TRUE]
    ELSE IF lua_isstring(v) THEN [err |-> FALSE, null |-> FALSE]
    ELSE [err |-> TRUE, null |-> FALSE]

\* the value of a decimal numeral, -1 for a string that is none
DigitValue(c) ==
    IF \E d \in 0..9 : Digit(d) = c THEN CHOOSE d \in 0..9 : Digit(d) = c ELSE -1

RECURSIVE Numeral(_)
Numeral(s) ==
    IF s = <<>> THEN -1
    ELSE IF DigitValue(s[Len(s)]) < 0 THEN -1
    ELSE IF Len(s) = 1 THEN DigitValue(s[1])
    ELSE IF Numeral(SubSeq(s, 1, Len(s) - 1)) < 0 THEN -1
    ELSE Numeral(SubSeq(s, 1, Len(s) - 1)) * 10 + DigitValue(s[Len(s)])

\* luaL_optinteger(L, i, d): d for none or nil, the integer for a number or a
\* string that is a numeral, and a raised type error for any other value
luaL_optinteger(v, d) ==
    IF lua_isnoneornil(v) THEN [err |-> FALSE, n |-> d]
    ELSE IF v.t = "number" THEN [err |-> FALSE, n |-> v.n]
    ELSE IF v.t = "string" /\ Numeral(v.s) >= 0 THEN [err |-> FALSE, n |-> Numeral(v.s)]
    ELSE [err |-> TRUE, n |-> 0]

\* strcmp of two strings: 0 if they are the same, character by character and
\* in length, and not 0 otherwise
RECURSIVE strcmp(_, _)
strcmp(a, b) ==
    IF a = <<>> /\ b = <<>> THEN 0
    ELSE IF a = <<>> THEN -1
    ELSE IF b = <<>> THEN 1
    ELSE IF Head(a) # Head(b) THEN 1
    ELSE strcmp(Tail(a), Tail(b))

\* the version tokens "mqttv31" and "mqttv311"
MQTTV31 == <<"m", "q", "t", "t", "v", "3", "1">>
MQTTV311 == <<"m", "q", "t", "t", "v", "3", "1", "1">>

MQTT_PROTOCOL_V31 == 3
MQTT_PROTOCOL_V311 == 4

(***************************************************************************)
(* The table of names registered into the module, and its lookup.          *)
(***************************************************************************)
D == <<
    [name |-> <<"O","N","_","C","O","N","N","E","C","T">>, value |-> CONNECT],
    [name |-> <<"O","N","_","D","I","S","C","O","N","N","E","C","T">>, value |-> DISCONNECT],
    [name |-> <<"O","N","_","P","U","B","L","I","S","H">>, value |-> PUBLISH],
    [name |-> <<"O","N","_","M","E","S","S","A","G","E">>, value |-> MESSAGE],
    [name |-> <<"O","N","_","S","U","B","S","C","R","I","B","E">>, value |-> SUBSCRIBE],
    [name |-> <<"O","N","_","U","N","S","U","B","S","C","R","I","B","E">>, value |-> UNSUBSCRIBE],
    [name |-> <<"O","N","_","L","O","G">>, value |-> LOG],
    [name |-> <<"L","O","G","_","N","O","N","E">>, value |-> MOSQ_LOG_NONE],
    [name |-> <<"L","O","G","_","I","N","F","O">>, value |-> MOSQ_LOG_INFO],
    [name |-> <<"L","O","G","_","N","O","T","I","C","E">>, value |-> MOSQ_LOG_NOTICE],
    [name |-> <<"L","O","G","_","W","A","R","N","I","N","G">>, value |-> MOSQ_LOG_WARNING],
    [name |-> <<"L","O","G","_","E","R","R","O","R">>, value |-> MOSQ_LOG_ERR],
    [name |-> <<"L","O","G","_","D","E","B","U","G">>, value |-> MOSQ_LOG_DEBUG],
    [name |-> <<"L","O","G","_","A","L","L">>, value |-> MOSQ_LOG_ALL] >>

\* strstr(typestr, "ON_") == typestr: the text starts with ON_
StartsWithON_(typestr) ==
    /\ Len(typestr) >= 3
    /\ SubSeq(typestr, 1, 3) = <<"O", "N", "_">>

RECURSIVE ScanD(_, _)
ScanD(i, typestr) ==
    IF i > Len(D) THEN -1
    ELSE IF D[i].name = typestr THEN D[i].value
    ELSE ScanD(i + 1, typestr)

callback_type_from_string(typestr) ==
    IF ~StartsWithON_(typestr) THEN -1 ELSE ScanD(1, typestr)

(***************************************************************************)
(* What a binding function hands back to its Lua caller.                   *)
(*   "true"     one value, true                                            *)
(*   "value"    one value (an instance, a message id)                      *)
(*   "nil3"     nil, code v, description                                   *)
(*   "errno3"   nil, errno, strerror(errno)                                *)
(*   "error"    a raised error (luaL_error), v the engine code             *)
(*   "argerror" a raised argument error, v the argument's index            *)
(*   "novalue"  no value at all                                            *)
(*   "crash"    the call did not return: the process died in it            *)
(*   "garbage"  whatever another thread left on top of the Lua stack       *)
(***************************************************************************)
Result(res, v) == [res |-> res, v |-> v]

\* a status function that returns every failure as (nil, code, description)
mosq__pstatus_never_raises(mosq_errno) ==
    IF mosq_errno = MOSQ_ERR_SUCCESS THEN Result("true", 0)
    ELSE Result("nil3", mosq_errno)

mosq__pstatus(mosq_errno) ==
    CASE mosq_errno = MOSQ_ERR_SUCCESS -> Result("true", 0)
      [] mosq_errno \in {MOSQ_ERR_INVAL, MOSQ_ERR_NOMEM, MOSQ_ERR_PROTOCOL,
                         MOSQ_ERR_NOT_SUPPORTED} -> Result("error", mosq_errno)
      [] mosq_errno \in {MOSQ_ERR_NO_CONN, MOSQ_ERR_CONN_LOST,
                         MOSQ_ERR_PAYLOAD_SIZE} -> Result("nil3", mosq_errno)
      [] mosq_errno = MOSQ_ERR_ERRNO -> Result("errno3", 0)
      [] OTHER -> Result("novalue", 0)

(***************************************************************************)
(* The Lua registry as luaL_ref and luaL_unref see it: n slots handed out  *)
(* so far, the value in each, and the list of released slots, the last     *)
(* released first.                                                         *)
(***************************************************************************)
Refs == 1..MaxRefs
Hooks == {"h1", "h2"}

EmptyRegistry == [n |-> 0, v |-> [r \in Refs |-> "unused"], free |-> <<>>]

CanRef(reg) == reg.free # <<>> \/ reg.n < MaxRefs

\* the reference luaL_ref returns for a non-nil value
NextRef(reg) == IF reg.free # <<>> THEN Head(reg.free) ELSE reg.n + 1

luaL_ref(reg, val) ==
    IF val.t = "nil" THEN reg
    ELSE IF reg.free # <<>>
         THEN [reg EXCEPT !.v[Head(reg.free)] = val.s[1], !.free = Tail(reg.free)]
         ELSE [reg EXCEPT !.v[reg.n + 1] = val.s[1], !.n = reg.n + 1]

luaL_unref(reg, ref) ==
    IF ref >= 0
    THEN [reg EXCEPT !.v[ref] = "free", !.free = <<ref>> \o reg.free]
    ELSE reg

\* lua_rawgeti(L, LUA_REGISTRYINDEX, ref)
lua_rawgeti(reg, ref) == IF ref \in 1..reg.n THEN reg.v[ref] ELSE "nil"

\* the references that hold a value, with the value each holds
Held(reg) == {<<r, reg.v[r]>> : r \in {x \in 1..reg.n : reg.v[x] \in Hooks}}

(***************************************************************************)
(* State.                                                                  *)
(*   ctx       the instance's ctx_t and the metatable of its userdata      *)
(*   mosq      the engine object behind ctx->mosq                          *)
(*   registry  the Lua registry                                            *)
(*   main      the caller thread's stack, innermost first: the binding     *)
(*             calls it is inside and the hooks running on it; empty when  *)
(*             the caller's own code runs                                  *)
(*   bg        the same for the engine's loop thread                       *)
(*   ret       what the last finished binding call handed back             *)
(*   bound     per callback type, the hook the last successful             *)
(*             callback_set was given (a history variable)                 *)
(*   crashed   the process has dereferenced a NULL lua_State               *)
(*   lib       the library: the binding's mosq_initialized flag, whether   *)
(*             the engine's library is initialised (up), and what the last *)
(*             init or cleanup call did: the primitive it invoked (prim)   *)
(*             and whether the library was initialised then (was_up)       *)
(***************************************************************************)
VARIABLES ctx, mosq, registry, main, bg, ret, bound, crashed, lib

vars == <<ctx, mosq, registry, main, bg, ret, bound, crashed, lib>>

MOSQ_META_CTX == "mosquitto.ctx"

LoopOps == {"loop", "loop_forever", "loop_read", "loop_write", "loop_misc"}
CmdOps == {"connect", "reconnect", "disconnect", "publish", "subscribe", "unsubscribe"}

Field(k) ==
    CASE k = CONNECT -> "on_connect"
      [] k = DISCONNECT -> "on_disconnect"
      [] k = PUBLISH -> "on_publish"
      [] k = MESSAGE -> "on_message"
      [] k = SUBSCRIBE -> "on_subscribe"
      [] k = UNSUBSCRIBE -> "on_unsubscribe"
      [] k = LOG -> "on_log"

ctx__on_init(c) ==
    [c EXCEPT !.on_connect = LUA_REFNIL, !.on_disconnect = LUA_REFNIL,
              !.on_publish = LUA_REFNIL, !.on_message = LUA_REFNIL,
              !.on_subscribe = LUA_REFNIL, !.on_unsubscribe = LUA_REFNIL,
              !.on_log = LUA_REFNIL]

ctx__on_clear(reg, c) ==
    LET r1 == luaL_unref(reg, c.on_connect)
        r2 == luaL_unref(r1, c.on_disconnect)
        r3 == luaL_unref(r2, c.on_publish)
        r4 == luaL_unref(r3, c.on_message)
        r5 == luaL_unref(r4, c.on_subscribe)
        r6 == luaL_unref(r5, c.on_unsubscribe)
    IN  luaL_unref(r6, c.on_log)

AllUnset(c) == \A k \in CallbackTypes : c[Field(k)] = LUA_REFNIL

\* ctx__on_clear passes ctx->L to luaL_unref, which uses it for a reference
\* that is not negative: outside a loop call that is a NULL lua_State
UnrefOnNullState(c) == c.L = "NULL" /\ \E k \in CallbackTypes : c[Field(k)] >= 0

\* a check that accepts every userdata, whatever its metatable
ctx_check_any_userdata(c) == c.meta # "none"

\* ctx_check: the value at index 1 is a userdata carrying the ctx metatable
ctx_check(c) == c.meta = MOSQ_META_CTX

NoCtx ==
    [meta |-> "none", L |-> "NULL",
     on_connect |-> LUA_REFNIL, on_disconnect |-> LUA_REFNIL, on_publish |-> LUA_REFNIL,
     on_message |-> LUA_REFNIL, on_subscribe |-> LUA_REFNIL, on_unsubscribe |-> LUA_REFNIL,
     on_log |-> LUA_REFNIL]

\* the reconnect policy of an instance nobody has set one for
DefaultPolicy == [base |-> 1, max |-> 30, exponential |-> TRUE]

\* rp: the reconnect policy; n: the consecutive attempts that have failed;
\* wait: the delay before the next attempt (while Reconnecting)
NoMosq ==
    [alive |-> FALSE, id_null |-> FALSE, clean_session |-> TRUE, cb |-> {},
     thread |-> FALSE, conn |-> "Disconnected", mid |-> 0,
     rp |-> DefaultPolicy, n |-> 0, wait |-> 0, writing |-> FALSE,
     protocol |-> MQTT_PROTOCOL_V31]

NoneBound == [k \in CallbackTypes |-> "none"]

\* what a call was given, as far as its result depends on it: a class c, and
\* for callback_set the callback type k that was meant and whether a hook h
\* was given
In(c, k, h) == [c |-> c, k |-> k, h |-> h]

NoIn == In("-", 0, "-")

\* op: the binding function; in: what it was given; eng: the call reached the
\* engine primitive it wraps; res, v: what it handed back
\* rc: the code the engine primitive returned, -1 where there is none
NoRet == [op |-> "none", in |-> NoIn, eng |-> FALSE, rc |-> -1, res |-> "none", v |-> 0]

Ret(op, in, eng, r) ==
    [op |-> op, in |-> in, eng |-> eng, rc |-> -1, res |-> r.res, v |-> r.v]

\* the call reached the engine primitive, which returned rc
RetOf(op, in, rc, r) ==
    [op |-> op, in |-> in, eng |-> TRUE, rc |-> rc, res |-> r.res, v |-> r.v]

\* luaopen_mosquitto: mosquitto_lib_init(), mosq_initialized = 1
LoadedLib == [mosq_initialized |-> TRUE, up |-> TRUE, prim |-> "none", was_up |-> FALSE]

Init ==
    /\ ctx = NoCtx
    /\ mosq = NoMosq
    /\ registry = EmptyRegistry
    /\ main = <<>>
    /\ bg = <<>>
    /\ ret = NoRet
    /\ bound = NoneBound
    /\ crashed = FALSE
    /\ lib = LoadedLib

Top(st) == Head(st)
Push(st, fr) == <<fr>> \o st
Pop(st) == Tail(st)

\* what a hook is called with besides the integer the engine passed
HookArgs3(success, str) == [success |-> success, str |-> str]

NoArgs == HookArgs3(FALSE, "-")

ctx_on_connect_always_success(rc) ==
    HookArgs3(TRUE, IF rc = CONN_ACCEPT THEN "connection accepted" ELSE "reserved for future use")

\* ctx_on_connect_safe: success and the text for the connect return code
ctx_on_connect_safe(rc) ==
    CASE rc = CONN_ACCEPT -> HookArgs3(TRUE, "connection accepted")
      [] rc = CONN_REF_BAD_PROTOCOL ->
            HookArgs3(FALSE, "connection refused - incorrect protocol version")
      [] rc = CONN_REF_BAD_ID ->
            HookArgs3(FALSE, "connection refused - invalid client identifier")
      [] rc = CONN_REF_SERVER_NOAVAIL ->
            HookArgs3(FALSE, "connection refused - server unavailable")
      [] rc = CONN_REF_BAD_LOGIN ->
            HookArgs3(FALSE, "connection refused - bad username or password")
      [] rc = CONN_REF_NO_AUTH -> HookArgs3(FALSE, "connection refused - not authorised")
      [] rc = CONN_REF_BAD_TLS -> HookArgs3(FALSE, "connection refused - TLS error")
      [] OTHER -> HookArgs3(FALSE, "reserved for future use")

ctx_on_disconnect_always_clean(rc) == HookArgs3(TRUE, "client-initiated disconnect")

\* ctx_on_disconnect_safe: success and the text for the reason of the disconnect
ctx_on_disconnect_safe(rc) ==
    IF rc # 0 THEN HookArgs3(FALSE, "unexpected disconnect")
    ELSE HookArgs3(TRUE, "client-initiated disconnect")

\* a binding call the engine runs in; a: the error that ended the connection
\* in this call, 0 if none did; herr: a hook it ran has raised an error
CallFrame(op) ==
    [f |-> op, k |-> 0, fn |-> "-", a |-> 0, args |-> NoArgs, herr |-> FALSE]
\* a hook fn running for event k; a: the integer the engine passed; args: what
\* the callback computed from it for the hook
HookFrame(k, fn, a) ==
    [f |-> "hook", k |-> k, fn |-> fn, a |-> a,
     args |-> IF k = CONNECT THEN ctx_on_connect_safe(a)
              ELSE IF k = DISCONNECT THEN ctx_on_disconnect_safe(a)
              ELSE NoArgs,
     herr |-> FALSE]

InHook(st) == st # <<>> /\ Top(st).f = "hook"
InEngine(st) == st # <<>> /\ Top(st).f # "hook"

\* the caller thread runs Lua code: the application's, or a hook's
MainInLua == ~crashed /\ (main = <<>> \/ InHook(main))

(***************************************************************************)
(* init and cleanup of the library.                                        *)
(***************************************************************************)
\* mosquitto_lib_init() unless mosq_initialized; the flag is left as it is
mosq_init ==
    /\ MainInLua
    /\ lib' = IF ~lib.mosq_initialized
              THEN [lib EXCEPT !.up = TRUE, !.prim = "init", !.was_up = lib.up]
              ELSE [lib EXCEPT !.prim = "none", !.was_up = lib.up]
    /\ ret' = Ret("init", NoIn, ~lib.mosq_initialized, mosq__pstatus(MOSQ_ERR_SUCCESS))
    /\ UNCHANGED <<ctx, mosq, registry, main, bg, bound, crashed>>

\* mosquitto_lib_cleanup(), mosq_initialized = 0
mosq_cleanup ==
    /\ MainInLua
    /\ lib' = [mosq_initialized |-> FALSE, up |-> FALSE, prim |-> "cleanup",
               was_up |-> lib.up]
    /\ ret' = Ret("cleanup", NoIn, TRUE, mosq__pstatus(MOSQ_ERR_SUCCESS))
    /\ UNCHANGED <<ctx, mosq, registry, main, bg, bound, crashed>>

(***************************************************************************)
(* new(id, clean_session)                                                  *)
(***************************************************************************)
\* what the caller asked for: an id that is no string, no id with a session to
\* keep, no id, an id with a session to keep, or an id
Asked(id, cs) ==
    In(IF ~lua_isnoneornil(id) /\ id.t # "string" THEN "invalid"
       ELSE IF lua_isnoneornil(id) /\ cs = VBool(FALSE) THEN "anon_persistent"
       ELSE IF lua_isnoneornil(id) THEN "anon"
       ELSE IF cs = VBool(FALSE) THEN "named_persistent"
       ELSE "named", 0, "-")

id_nil_session_kept_allowed(id_null, clean_session) == FALSE

\* id == NULL && !clean_session
id_nil_session_kept(id_null, clean_session) == id_null /\ ~clean_session

mosq_new(stk, created) ==
    LET id == luaL_optstring(Arg(stk, 1))
        clean_session == IF lua_isboolean(Arg(stk, 2)) THEN lua_toboolean(Arg(stk, 2)) ELSE TRUE
        in == Asked(Arg(stk, 1), Arg(stk, 2))
    IN  /\ MainInLua
        /\ ctx.meta = "none"
        /\ UNCHANGED <<registry, main, bg, bound, crashed, lib>>
        /\ IF id.err
           THEN /\ ret' = Ret("new", in, FALSE, Result("argerror", 1))
                /\ UNCHANGED <<ctx, mosq>>
           ELSE IF id_nil_session_kept(id.null, clean_session)
           THEN /\ ret' = Ret("new", in, FALSE, Result("argerror", 2))
                /\ UNCHANGED <<ctx, mosq>>
           ELSE IF ~created
           THEN \* mosquitto_new returned NULL
                /\ ret' = Ret("new", in, TRUE, Result("error", MOSQ_ERR_ERRNO))
                /\ UNCHANGED <<ctx, mosq>>
           ELSE /\ mosq' = [alive |-> TRUE, id_null |-> id.null,
                            clean_session |-> clean_session, cb |-> {},
                            thread |-> FALSE, conn |-> "Disconnected", mid |-> 0,
                            rp |-> DefaultPolicy, n |-> 0, wait |-> 0, writing |-> FALSE,
                            protocol |-> MQTT_PROTOCOL_V31]
                /\ ctx' = ctx__on_init([ctx EXCEPT !.L = "NULL", !.meta = MOSQ_META_CTX])
                /\ ret' = Ret("new", in, TRUE, Result("value", 0))

(***************************************************************************)
(* destroy                                                                 *)
(***************************************************************************)
ctx_destroy ==
    /\ MainInLua
    /\ ctx.meta # "none"
    /\ bg = <<>>
    /\ UNCHANGED <<main, bg, lib>>
    /\ IF ~ctx_check(ctx)
       THEN /\ ret' = Ret("destroy", NoIn, FALSE, Result("argerror", 1))
            /\ UNCHANGED <<ctx, mosq, registry, bound, crashed>>
       ELSE IF UnrefOnNullState(ctx)
       THEN \* mosquitto_destroy, then luaL_unref on a NULL lua_State
            /\ mosq' = [mosq EXCEPT !.alive = FALSE, !.cb = {}, !.thread = FALSE,
                                    !.conn = "Disconnected"]
            /\ crashed' = TRUE
            /\ ret' = Ret("destroy", NoIn, TRUE, Result("crash", 0))
            /\ UNCHANGED <<ctx, registry, bound>>
       ELSE /\ UNCHANGED crashed
            /\ mosq' = [mosq EXCEPT !.alive = FALSE, !.cb = {}, !.thread = FALSE,
                                    !.conn = "Disconnected"]
            /\ registry' = ctx__on_clear(registry, ctx)
            /\ ctx' = [ctx EXCEPT !.meta = "empty"]
            /\ bound' = NoneBound
            /\ ret' = Ret("destroy", NoIn, TRUE, mosq__pstatus(MOSQ_ERR_SUCCESS))

(***************************************************************************)
(* reinitialise(id, clean_session), called as a method: the instance is at *)
(* index 1, the id at 2 and clean_session at 3.                            *)
(***************************************************************************)
ctx_reinitialise(stk, rc) ==
    LET id == luaL_optstring(Arg(stk, 1))
        clean_session == IF lua_isboolean(Arg(stk, 2)) THEN lua_toboolean(Arg(stk, 2)) ELSE TRUE
        in == Asked(Arg(stk, 2), Arg(stk, 3))
    IN  /\ MainInLua
        /\ ctx.meta # "none"
        /\ UNCHANGED <<main, bg, lib>>
        /\ IF ~ctx_check(ctx)
           THEN /\ ret' = Ret("reinitialise", in, FALSE, Result("argerror", 1))
                /\ UNCHANGED <<ctx, mosq, registry, bound, crashed>>
           ELSE IF id.err
           THEN /\ ret' = Ret("reinitialise", in, FALSE, Result("argerror", 1))
                /\ UNCHANGED <<ctx, mosq, registry, bound, crashed>>
           ELSE IF id_nil_session_kept(id.null, clean_session)
           THEN /\ ret' = Ret("reinitialise", in, FALSE, Result("argerror", 3))
                /\ UNCHANGED <<ctx, mosq, registry, bound, crashed>>
           ELSE IF UnrefOnNullState(ctx)
           THEN \* mosquitto_reinitialise, then luaL_unref on a NULL lua_State
                /\ mosq' = [mosq EXCEPT !.id_null = id.null, !.clean_session = clean_session,
                                        !.cb = {}, !.conn = "Disconnected"]
                /\ crashed' = TRUE
                /\ ret' = Ret("reinitialise", in, TRUE, Result("crash", 0))
                /\ UNCHANGED <<ctx, registry, bound>>
           ELSE \* mosquitto_reinitialise, then ctx__on_clear and ctx__on_init
                /\ UNCHANGED crashed
                /\ mosq' = [mosq EXCEPT !.id_null = id.null, !.clean_session = clean_session,
                                        !.cb = {}, !.conn = "Disconnected"]
                /\ registry' = ctx__on_clear(registry, ctx)
                /\ ctx' = ctx__on_init(ctx)
                /\ bound' = NoneBound
                /\ ret' = RetOf("reinitialise", in, rc, mosq__pstatus(rc))

(***************************************************************************)
(* callback_set(type, hook), called as a method: the instance is at index  *)
(* 1, the callback type at 2 and the hook at 3.                            *)
(***************************************************************************)
\* what the caller meant: a callback type by its name or by its number, or
\* something else; and a hook, or something that cannot be called
Meant(type, hook) ==
    In(IF type.t = "string" /\ \E i \in 1..7 : D[i].name = type.s THEN "name"
       ELSE IF type.t = "number" /\ type.n \in CallbackTypes THEN "number"
       ELSE "other",
       IF type.t = "string" /\ \E i \in 1..7 : D[i].name = type.s
       THEN D[CHOOSE i \in 1..7 : D[i].name = type.s].value
       ELSE IF type.t = "number" THEN type.n ELSE 0,
       IF hook.t = "function" THEN "fn" ELSE "-")

keep_first_callback(c, callback_type, ref) ==
    IF c[Field(callback_type)] # LUA_REFNIL THEN c
    ELSE [c EXCEPT ![Field(callback_type)] = ref]

\* the switch's seven cases: ctx->on_<type> = ref
store_callback(c, callback_type, ref) == [c EXCEPT ![Field(callback_type)] = ref]

keep_rejected_ref(reg, ref) == reg

\* the switch's default case releases the reference just taken
release_rejected_ref(reg, ref) == luaL_unref(reg, ref)

ctx_callback_set(stk) ==
    LET isstr == lua_isstring(Arg(stk, 2))
        callback_type == IF isstr THEN callback_type_from_string(lua_tostring(Arg(stk, 2))) ELSE 0
        hook == stk[Len(stk)]
        ref == IF hook.t = "nil" THEN LUA_REFNIL ELSE NextRef(registry)
        taken == luaL_ref(registry, hook)
        in == Meant(Arg(stk, 2), Arg(stk, 3))
    IN  /\ MainInLua
        /\ ctx.meta # "none"
        /\ UNCHANGED <<main, bg, crashed, lib>>
        /\ IF ~ctx_check(ctx)
           THEN /\ ret' = Ret("callback_set", in, FALSE, Result("argerror", 1))
                /\ UNCHANGED <<ctx, mosq, registry, bound>>
           ELSE IF ~isstr
           THEN \* luaL_checkinteger on a value that is neither a number nor a string
                /\ ret' = Ret("callback_set", in, FALSE, Result("argerror", 2))
                /\ UNCHANGED <<ctx, mosq, registry, bound>>
           ELSE IF ~lua_isfunction(Arg(stk, 3))
           THEN /\ ret' = Ret("callback_set", in, FALSE, Result("argerror", 3))
                /\ UNCHANGED <<ctx, mosq, registry, bound>>
           ELSE /\ CanRef(registry)
                /\ IF callback_type \in CallbackTypes
                   THEN /\ ctx' = store_callback(ctx, callback_type, ref)
                        /\ registry' = taken
                        /\ mosq' = [mosq EXCEPT !.cb = @ \cup {callback_type}]
                        /\ bound' = [bound EXCEPT ![callback_type] = Arg(stk, 3).s[1]]
                        /\ ret' = Ret("callback_set", in, TRUE, mosq__pstatus(MOSQ_ERR_SUCCESS))
                   ELSE /\ registry' = release_rejected_ref(taken, ref)
                        /\ ret' = Ret("callback_set", in, FALSE, Result("argerror", 2))
                        /\ UNCHANGED <<ctx, mosq, bound>>

(***************************************************************************)
(* Dispatch: the engine calls ctx_on_<type> on the thread whose stack is   *)
(* st.  The callback takes the lua_State from ctx->L, fetches the hook     *)
(* from the registry and calls it protected.                               *)
(***************************************************************************)
\* the hook's error leaves the callback (an unprotected lua_call)
lua_call(outcome) == IF outcome = "error" THEN "thrown" ELSE "returned"

\* lua_pcall: the hook's error is caught, the message popped
lua_pcall(outcome) == IF outcome = "error" THEN "caught" ELSE "returned"

\* the stack once the engine has entered the callback for event k
Dispatched(st, k, a) ==
    IF ctx.L = "NULL" THEN Push(st, HookFrame(k, "-", a))
    ELSE IF lua_rawgeti(registry, ctx[Field(k)]) \in Hooks
         THEN Push(st, HookFrame(k, lua_rawgeti(registry, ctx[Field(k)]), a))
         ELSE st

\* the calling frame once a hook it ran has ended as outcome
HookEnded(st, outcome) ==
    IF st = <<>> THEN st
    ELSE <<[Top(st) EXCEPT !.herr = @ \/ outcome = "error"]>> \o Pop(st)

(***************************************************************************)
(* The engine's side of a connection, as the binding's callers see it.     *)
(***************************************************************************)
\* accepted, refused, and a code the protocol reserves
\* the return codes of a CONNACK: the seven the binding names and one it
\* does not
ConnackCodes == CONN_ACCEPT..(CONN_REF_BAD_TLS + 1)

\* event k can happen in connection state conn
Feasible(k, conn) ==
    CASE k = CONNECT -> conn = "Connecting"
      [] k = DISCONNECT -> conn \in {"Connected", "Disconnecting"}
      [] k = LOG -> TRUE
      [] OTHER -> conn = "Connected"

\* the integer the engine passes to the callback: the connect return code, the
\* reason of the disconnect, a message id, a log level
EventArgs(k, conn) ==
    CASE k = CONNECT -> ConnackCodes
      [] k = DISCONNECT -> IF conn = "Disconnecting" THEN {0}
                           ELSE {MOSQ_ERR_CONN_LOST, MOSQ_ERR_PROTOCOL, MOSQ_ERR_TLS}
      [] k = LOG -> {MOSQ_LOG_DEBUG}
      [] OTHER -> {1}

ConnAfterEvent(k, a, conn) ==
    CASE k = CONNECT -> IF a = CONN_ACCEPT THEN "Connected" ELSE "Disconnected"
      [] k = DISCONNECT -> "Disconnected"
      [] OTHER -> conn

ConnAfterCommand(op, rc, conn) ==
    IF rc # MOSQ_ERR_SUCCESS THEN conn
    ELSE IF op \in {"connect", "reconnect"} THEN "Connecting"
    ELSE IF op = "disconnect" THEN "Disconnecting"
    ELSE conn

\* the codes an engine call can end with
CommandRcs(op, conn) ==
    IF op \in {"connect", "reconnect"}
    THEN {MOSQ_ERR_SUCCESS, MOSQ_ERR_ERRNO, MOSQ_ERR_INVAL, MOSQ_ERR_EAI}
    ELSE IF conn # "Connected" THEN {MOSQ_ERR_NO_CONN}
    ELSE IF op = "publish"
    THEN {MOSQ_ERR_SUCCESS, MOSQ_ERR_INVAL, MOSQ_ERR_NOMEM, MOSQ_ERR_PAYLOAD_SIZE}
    ELSE {MOSQ_ERR_SUCCESS, MOSQ_ERR_INVAL}

LoopRcs(conn) ==
    IF conn = "Disconnected" THEN {MOSQ_ERR_NO_CONN, MOSQ_ERR_INVAL}
    ELSE {MOSQ_ERR_SUCCESS, MOSQ_ERR_INVAL, MOSQ_ERR_ERRNO}

\* the step that lost the connection returns the error that ended it
LoopReturnRcs(fr, conn) == IF fr.a # 0 THEN {fr.a} ELSE LoopRcs(conn)

\* the calling frame once the connection has ended in it with error a
ConnectionEnded(st, k, a) ==
    IF k = DISCONNECT /\ a # 0 /\ st # <<>>
    THEN <<[Top(st) EXCEPT !.a = a]>> \o Pop(st)
    ELSE st

\* the message id the engine hands out next
NextMid(m) == m.mid + 1

\* a loop call that treats every operation as a single step
mosq_loop_never_forever(op) == FALSE

\* mosq_loop(L, forever): ctx_loop_forever passes true and runs
\* mosquitto_loop_forever, the other loop operations run one step
mosq_loop_forever(op) == op = "loop_forever"

Min(a, b) == IF a <= b THEN a ELSE b

\* the delay before the next attempt, after n consecutive failures the last
\* of which was waited for wait: the base delay first, then doubled and
\* capped, or the base delay every time
NextDelay(rp, n, wait) ==
    IF n = 0 THEN rp.base
    ELSE IF rp.exponential THEN Min(2 * wait, rp.max)
    ELSE rp.base

\* The engine after event k with integer a.  In a run-forever mode a lost
\* connection and a refused handshake lead to Reconnecting, with one more
\* failure counted and the next delay set; an accepted handshake resets the
\* policy.
AfterEvent(forever, k, a, m) ==
    IF forever /\ k \in {CONNECT, DISCONNECT} /\ a # 0
    THEN [m EXCEPT !.conn = "Reconnecting", !.n = @ + 1,
                   !.wait = NextDelay(m.rp, m.n, m.wait)]
    ELSE IF k = CONNECT /\ a = 0
    THEN [m EXCEPT !.conn = ConnAfterEvent(k, a, @), !.n = 0, !.wait = 0]
    ELSE [m EXCEPT !.conn = ConnAfterEvent(k, a, @)]

\* the engine once a run-forever mode has ended: it reconnects no more
Settled(m) ==
    IF m.conn = "Reconnecting"
    THEN [m EXCEPT !.conn = "Disconnected", !.n = 0, !.wait = 0]
    ELSE m

\* mosquitto_loop_forever returns on a fatal error, and after the client's
\* disconnect
ForeverReturnRcs(conn) ==
    {MOSQ_ERR_INVAL, MOSQ_ERR_NOMEM}
        \cup (IF conn = "Disconnected" THEN {MOSQ_ERR_SUCCESS} ELSE {})

DelaySetRcs == {MOSQ_ERR_SUCCESS}

LoopStartRcs(threaded) ==
    IF threaded THEN {MOSQ_ERR_INVAL}
    ELSE {MOSQ_ERR_SUCCESS, MOSQ_ERR_NOT_SUPPORTED}

(***************************************************************************)
(* loop, loop_forever, loop_read, loop_write, loop_misc: bind ctx->L, run  *)
(* the engine's step, unbind ctx->L, hand the status back.                 *)
(***************************************************************************)
mosq_loop_call(op) ==
    /\ MainInLua
    /\ ctx.meta # "none"
    /\ UNCHANGED <<mosq, registry, bg, bound, crashed, lib>>
    /\ IF ~ctx_check(ctx)
       THEN /\ ret' = Ret(op, NoIn, FALSE, Result("argerror", 1))
            /\ UNCHANGED <<ctx, main>>
       ELSE \* a hook at the deepest level may still step the loop
            /\ Len(main) <= MaxDepth
            /\ ctx' = [ctx EXCEPT !.L = "L"]
            /\ main' = Push(main, CallFrame(op))
            /\ UNCHANGED ret

mosq_loop_return(rc) ==
    /\ ~crashed
    /\ InEngine(main)
    /\ Top(main).f \in LoopOps
    /\ IF mosq_loop_forever(Top(main).f)
       THEN /\ rc \in ForeverReturnRcs(mosq.conn)
            /\ mosq' = Settled(mosq)
       ELSE /\ rc \in LoopReturnRcs(Top(main), mosq.conn)
            /\ UNCHANGED mosq
    /\ ctx' = [ctx EXCEPT !.L = "NULL"]
    /\ main' = Pop(main)
    /\ ret' = RetOf(Top(main).f, NoIn, rc, mosq__pstatus(rc))
    /\ UNCHANGED <<registry, bg, bound, crashed, lib>>

(***************************************************************************)
(* connect, reconnect, disconnect, publish, subscribe, unsubscribe: call   *)
(* the engine, hand the status (or the message id) back.                   *)
(***************************************************************************)
ctx_command_call(op) ==
    /\ MainInLua
    /\ ctx.meta # "none"
    /\ UNCHANGED <<ctx, mosq, registry, bg, bound, crashed, lib>>
    /\ IF ~ctx_check(ctx)
       THEN /\ ret' = Ret(op, NoIn, FALSE, Result("argerror", 1))
            /\ UNCHANGED main
       ELSE /\ Len(main) < MaxDepth
            /\ main' = Push(main, CallFrame(op))
            /\ UNCHANGED ret

\* publish, subscribe and unsubscribe: the status if the engine failed, else
\* the message id the engine wrote to mid
publish_result(rc, mid) ==
    IF rc # MOSQ_ERR_SUCCESS THEN mosq__pstatus(rc) ELSE Result("value", mid)

MidOps == {"publish", "subscribe", "unsubscribe"}

\* The call pushes its result on the lua_State on which the engine's thread
\* is running a hook at the same moment (ctx->L, no lock): the caller returns
\* its result, or what the other thread left on the stack, or the process
\* dies.
RacedResults(r, racing) ==
    IF racing THEN {r, Result("garbage", 0), Result("crash", 0)} ELSE {r}

ctx_command_return(rc) ==
    /\ ~crashed
    /\ InEngine(main)
    /\ Top(main).f \in CmdOps
    /\ rc \in CommandRcs(Top(main).f, mosq.conn)
    /\ IF Top(main).f \in MidOps
       THEN /\ rc = MOSQ_ERR_SUCCESS => mosq.mid < MaxMid
            /\ mosq' = [mosq EXCEPT !.mid = IF rc = MOSQ_ERR_SUCCESS THEN NextMid(mosq) ELSE @]
            /\ \E r \in RacedResults(publish_result(rc, NextMid(mosq)), InHook(bg)) :
                  /\ ret' = RetOf(Top(main).f, NoIn, rc, r)
                  /\ crashed' = (r.res = "crash")
       ELSE /\ mosq' = [mosq EXCEPT !.conn = ConnAfterCommand(Top(main).f, rc, @)]
            /\ \E r \in RacedResults(mosq__pstatus(rc), InHook(bg)) :
                  /\ ret' = RetOf(Top(main).f, NoIn, rc, r)
                  /\ crashed' = (r.res = "crash")
    /\ main' = Pop(main)
    /\ UNCHANGED <<ctx, registry, bg, bound, lib>>

(***************************************************************************)
(* loop_start and loop_stop.                                               *)
(***************************************************************************)
ctx_loop_start(rc) ==
    /\ MainInLua
    /\ ctx.meta # "none"
    /\ UNCHANGED <<registry, main, bg, bound, crashed, lib>>
    /\ IF ~ctx_check(ctx)
       THEN /\ ret' = Ret("loop_start", NoIn, FALSE, Result("argerror", 1))
            /\ UNCHANGED <<ctx, mosq>>
       ELSE /\ rc \in LoopStartRcs(mosq.thread)
            /\ ctx' = [ctx EXCEPT !.L = "L"]
            /\ mosq' = [mosq EXCEPT !.thread = @ \/ rc = MOSQ_ERR_SUCCESS]
            /\ ret' = RetOf("loop_start", NoIn, rc, mosq__pstatus(rc))

\* the engine once its thread has been stopped: a write the thread was in
\* the middle of is abandoned and the connection has failed
Stopped(m) ==
    Settled([m EXCEPT !.thread = FALSE, !.writing = FALSE,
                      !.conn = IF m.writing THEN "Disconnected" ELSE @])

\* ctx->L as loop_stop leaves it, had it not been reset
ctx_after_loop_stop_kept(c) == c

\* ctx->L = NULL after mosquitto_loop_stop
ctx_after_loop_stop(c) == [c EXCEPT !.L = "NULL"]

\* which stop the caller asked for
AskedStop(force) == In(IF force THEN "true" ELSE "false", 0, "-")

\* mosquitto_loop_stop joins the thread: it returns once the thread is out of
\* the callback it may be in and, unless forced, has finished the write it
\* may be in
ctx_loop_stop(force) ==
    /\ MainInLua
    /\ ctx.meta # "none"
    /\ UNCHANGED <<registry, main, bg, bound, crashed, lib>>
    /\ IF ~ctx_check(ctx)
       THEN /\ ret' = Ret("loop_stop", AskedStop(force), FALSE, Result("argerror", 1))
            /\ UNCHANGED <<ctx, mosq>>
       ELSE /\ bg = <<>>
            /\ force \/ ~mosq.writing
            /\ ctx' = ctx_after_loop_stop(ctx)
            /\ mosq' = Stopped(mosq)
            /\ ret' = RetOf("loop_stop", AskedStop(force),
                            IF mosq.thread THEN MOSQ_ERR_SUCCESS ELSE MOSQ_ERR_INVAL,
                            mosq__pstatus(IF mosq.thread THEN MOSQ_ERR_SUCCESS ELSE MOSQ_ERR_INVAL))

(***************************************************************************)
(* The engine reports an event from inside a call on the caller's thread.  *)
(* Outside the loop calls the only event is a log line.                    *)
(***************************************************************************)
engine_event(k, a) ==
    /\ ~crashed
    /\ InEngine(main)
    /\ mosq.alive
    /\ Top(main).f \in LoopOps \/ k = LOG
    /\ Feasible(k, mosq.conn)
    /\ a \in EventArgs(k, mosq.conn)
    /\ k \in mosq.cb \/ AfterEvent(mosq_loop_forever(Top(main).f), k, a, mosq) # mosq
    /\ AfterEvent(mosq_loop_forever(Top(main).f), k, a, mosq).n <= MaxAttempts
    /\ mosq' = AfterEvent(mosq_loop_forever(Top(main).f), k, a, mosq)
    /\ LET ended == IF mosq_loop_forever(Top(main).f) THEN main
                    ELSE ConnectionEnded(main, k, a)
       IN  IF k \in mosq.cb
           THEN /\ Len(main) < MaxDepth
                /\ crashed' = (ctx.L = "NULL")
                /\ main' = IF Dispatched(main, k, a) = main
                           THEN HookEnded(ended, "error")
                           ELSE Dispatched(ended, k, a)
           ELSE /\ main' = ended
                /\ UNCHANGED crashed
    /\ UNCHANGED <<ctx, registry, bg, ret, bound, lib>>

\* the hook on the caller's thread ends, with a value or with an error
hook_return(outcome) ==
    /\ ~crashed
    /\ InHook(main)
    /\ IF lua_pcall(outcome) = "thrown"
       THEN \* the error unwinds the engine's frames up to the caller
            /\ main' = <<>>
            /\ ret' = Ret(main[Len(main)].f, NoIn, TRUE, Result("error", -1))
       ELSE /\ main' = HookEnded(Pop(main), outcome)
            /\ UNCHANGED ret
    /\ UNCHANGED <<ctx, mosq, registry, bg, bound, crashed, lib>>

\* the engine runs on after the hook destroyed the instance under it
engine_use_after_free ==
    /\ ~crashed
    /\ InEngine(main)
    /\ ~mosq.alive
    /\ crashed' = TRUE
    /\ UNCHANGED <<ctx, mosq, registry, main, bg, ret, bound, lib>>

(***************************************************************************)
(* In a run-forever mode (inside loop_forever, or on the engine's thread)  *)
(* the engine retries the handshake once the delay has passed; the attempt *)
(* gets through to the broker (ok) or fails.                               *)
(***************************************************************************)
engine_reconnect(ok) ==
    /\ ~crashed
    /\ mosq.alive
    /\ mosq.conn = "Reconnecting"
    /\ \/ InEngine(main) /\ mosq_loop_forever(Top(main).f)
       \/ mosq.thread /\ bg = <<>> /\ ~mosq.writing
    /\ IF ok
       THEN mosq' = [mosq EXCEPT !.conn = "Connecting"]
       ELSE /\ mosq.n < MaxAttempts
            /\ mosq' = [mosq EXCEPT !.n = @ + 1,
                                    !.wait = NextDelay(mosq.rp, mosq.n, mosq.wait)]
    /\ UNCHANGED <<ctx, registry, main, bg, ret, bound, crashed, lib>>

(***************************************************************************)
(* reconnect_delay_set(delay, delay_max, exponential), called as a method: *)
(* the instance is at index 1.                                             *)
(***************************************************************************)
\* the backoff flag read with lua_toboolean alone: absent means false
reconnect_exponential_backoff_plain(v) == lua_toboolean(v)

\* lua_isboolean(L, 4) ? lua_toboolean(L, 4) : true
reconnect_exponential_backoff(v) == IF lua_isboolean(v) THEN lua_toboolean(v) ELSE TRUE

\* what the caller asked for: the backoff flag, and the base delay if it is a
\* number (-1 if it is not)
AskedDelay(stk) ==
    In(IF lua_isboolean(Arg(stk, 4)) THEN (IF Arg(stk, 4).b THEN "true" ELSE "false")
       ELSE "omitted",
       IF Arg(stk, 2).t = "number" THEN Arg(stk, 2).n ELSE -1, "-")

ctx_reconnect_delay_set(stk, rc) ==
    LET reconnect_delay == luaL_optinteger(Arg(stk, 2), 1)
        reconnect_delay_max == luaL_optinteger(Arg(stk, 3), 30)
    IN  /\ MainInLua
        /\ ctx.meta # "none"
        /\ UNCHANGED <<ctx, registry, main, bg, bound, crashed, lib>>
        /\ IF ~ctx_check(ctx)
           THEN /\ ret' = Ret("reconnect_delay_set", AskedDelay(stk), FALSE, Result("argerror", 1))
                /\ UNCHANGED mosq
           ELSE IF reconnect_delay.err
           THEN /\ ret' = Ret("reconnect_delay_set", AskedDelay(stk), FALSE, Result("argerror", 2))
                /\ UNCHANGED mosq
           ELSE IF reconnect_delay_max.err
           THEN /\ ret' = Ret("reconnect_delay_set", AskedDelay(stk), FALSE, Result("argerror", 3))
                /\ UNCHANGED mosq
           ELSE /\ rc \in DelaySetRcs
                /\ mosq' = [mosq EXCEPT !.rp = [base |-> reconnect_delay.n,
                                                max |-> reconnect_delay_max.n,
                                                exponential |->
                                                    reconnect_exponential_backoff(Arg(stk, 4))]]
                /\ ret' = RetOf("reconnect_delay_set", AskedDelay(stk), rc, mosq__pstatus(rc))

(***************************************************************************)
(* version_set(mqtt_version), called as a method.                          *)
(***************************************************************************)
\* the protocol version chosen for a token that is a string
protocol_version(mqtt_version) ==
    IF strcmp(mqtt_version, MQTTV31) = 0 THEN MQTT_PROTOCOL_V31
    ELSE IF strcmp(mqtt_version, MQTTV311) = 0 THEN MQTT_PROTOCOL_V311
    ELSE MQTT_PROTOCOL_V31

\* strcmp(NULL, "mqttv31") reads through a null pointer: the process dies, or
\* the comparisons come out one way or the other
NullCompared == {"crash", "mqttv31", "mqttv311"}

VersionSetRcs == {MOSQ_ERR_SUCCESS}

\* the token the caller gave: its type, and for a string which of the two
\* version tokens it is, if any
AskedVersion(v) ==
    In(v.t, 0, IF v.t # "string" THEN "-"
               ELSE IF v.s = MQTTV311 THEN "mqttv311"
               ELSE IF v.s = MQTTV31 THEN "mqttv31"
               ELSE "other")

ctx_version_set(stk, rc, ub) ==
    LET mqtt_version == luaL_optstring(Arg(stk, 2))
        in == AskedVersion(Arg(stk, 2))
    IN  /\ MainInLua
        /\ ctx.meta # "none"
        /\ UNCHANGED <<ctx, registry, main, bg, bound, lib>>
        /\ IF ~ctx_check(ctx)
           THEN /\ ret' = Ret("version_set", in, FALSE, Result("argerror", 1))
                /\ UNCHANGED <<mosq, crashed>>
           ELSE IF mqtt_version.err
           THEN /\ ret' = Ret("version_set", in, FALSE, Result("argerror", 2))
                /\ UNCHANGED <<mosq, crashed>>
           ELSE IF mqtt_version.null
           THEN /\ ub \in NullCompared
                /\ crashed' = (ub = "crash")
                /\ IF ub = "crash"
                   THEN /\ ret' = Ret("version_set", in, FALSE, Result("crash", 0))
                        /\ UNCHANGED mosq
                   ELSE /\ rc \in VersionSetRcs
                        /\ mosq' = [mosq EXCEPT !.protocol =
                                        IF ub = "mqttv311" THEN MQTT_PROTOCOL_V311
                                        ELSE MQTT_PROTOCOL_V31]
                        /\ ret' = RetOf("version_set", in, rc, mosq__pstatus(rc))
           ELSE /\ ub = "crash"
                /\ rc \in VersionSetRcs
                /\ mosq' = [mosq EXCEPT !.protocol =
                                protocol_version(lua_tostring(Arg(stk, 2)))]
                /\ ret' = RetOf("version_set", in, rc, mosq__pstatus(rc))
                /\ UNCHANGED crashed

(***************************************************************************)
(* The engine's loop thread, started by loop_start.                        *)
(***************************************************************************)
thread_event(k, a) ==
    /\ ~crashed
    /\ mosq.thread
    /\ mosq.alive
    /\ bg = <<>>
    /\ ~mosq.writing
    /\ Feasible(k, mosq.conn)
    /\ a \in EventArgs(k, mosq.conn)
    /\ k \in mosq.cb \/ AfterEvent(TRUE, k, a, mosq) # mosq
    /\ AfterEvent(TRUE, k, a, mosq).n <= MaxAttempts
    /\ mosq' = AfterEvent(TRUE, k, a, mosq)
    /\ IF k \in mosq.cb
       THEN /\ bg' = Dispatched(bg, k, a)
            /\ crashed' = (ctx.L = "NULL")
       ELSE UNCHANGED <<bg, crashed>>
    /\ UNCHANGED <<ctx, registry, main, ret, bound, lib>>

thread_hook_return(outcome) ==
    /\ ~crashed
    /\ InHook(bg)
    /\ bg' = HookEnded(Pop(bg), outcome)
    /\ UNCHANGED <<ctx, mosq, registry, main, ret, bound, crashed, lib>>

\* The callback on the thread fetches the hook (lua_rawgeti on ctx->L) while
\* the caller's thread is inside callback_set on the same lua_State (luaL_ref
\* pops the stack and writes the registry, then the slot is stored; no lock):
\* the callback calls the hook bound before, or the new one, or whatever the
\* stack or the registry held at that moment, or the process dies.
RacedHooks(old, new) == {old, new, "-", "crash"}

callback_set_during_dispatch(stk, a, seen) ==
    LET callback_type == callback_type_from_string(lua_tostring(Arg(stk, 2)))
        ref == NextRef(registry)
    IN  /\ MainInLua
        /\ ctx_check(ctx)
        /\ lua_isstring(Arg(stk, 2))
        /\ lua_isfunction(Arg(stk, 3))
        /\ callback_type \in CallbackTypes
        /\ CanRef(registry)
        /\ mosq.thread
        /\ mosq.alive
        /\ bg = <<>>
        /\ ~mosq.writing
        /\ callback_type \in mosq.cb
        /\ Feasible(callback_type, mosq.conn)
        /\ a \in EventArgs(callback_type, mosq.conn)
        /\ AfterEvent(TRUE, callback_type, a, mosq).n <= MaxAttempts
        /\ seen \in RacedHooks(lua_rawgeti(registry, ctx[Field(callback_type)]),
                               Arg(stk, 3).s[1])
        /\ ctx' = store_callback(ctx, callback_type, ref)
        /\ registry' = luaL_ref(registry, Arg(stk, 3))
        /\ mosq' = AfterEvent(TRUE, callback_type, a, mosq)
        /\ bound' = [bound EXCEPT ![callback_type] = Arg(stk, 3).s[1]]
        /\ ret' = Ret("callback_set", Meant(Arg(stk, 2), Arg(stk, 3)), TRUE,
                      mosq__pstatus(MOSQ_ERR_SUCCESS))
        /\ IF seen = "crash"
           THEN crashed' = TRUE /\ UNCHANGED bg
           ELSE /\ bg' = Push(bg, HookFrame(callback_type, seen, a))
                /\ crashed' = (ctx.L = "NULL")
        /\ UNCHANGED <<main, lib>>

\* the thread starts to write an outbound publish to the socket, and gets the
\* packet out
thread_write_begin ==
    /\ ~crashed
    /\ mosq.thread
    /\ mosq.alive
    /\ bg = <<>>
    /\ mosq.conn = "Connected"
    /\ mosq.mid >= 1
    /\ ~mosq.writing
    /\ mosq' = [mosq EXCEPT !.writing = TRUE]
    /\ UNCHANGED <<ctx, registry, main, bg, ret, bound, crashed, lib>>

thread_write_end ==
    /\ ~crashed
    /\ mosq.writing
    /\ mosq' = [mosq EXCEPT !.writing = FALSE]
    /\ UNCHANGED <<ctx, registry, main, bg, ret, bound, crashed, lib>>

(***************************************************************************)
(* The arguments the calls are tried with.                                 *)
(***************************************************************************)
IdArgs == {VNil, VStr(<<"c", "1">>), VTable}
CleanArgs == {VNil, VBool(TRUE), VBool(FALSE), VNum(0)}

NewArgs == {<<>>} \cup {<<i>> : i \in IdArgs} \cup {<<i, c>> : i \in IdArgs, c \in CleanArgs}

ReinitialiseArgs == {<<VUdata>> \o a : a \in NewArgs}

\* the seven callback types by name, and a log level by name
NameArgs == {VStr(D[i].name) : i \in 1..7 \cup {Len(D)}}

TypeArgs ==
    NameArgs
    \cup {VStr(<<"O", "N", "_", "F", "O", "O">>), VStr(<<>>), VStr(<<"1", "6">>)}
    \cup {VNum(k) : k \in {CONNECT, MESSAGE, 5}}
    \cup {VNil, VTable}

\* a function, nothing, and a string that names one
HookArgs == {VFun("h1"), VNil, VStr(<<"h">>)}

CallbackSetArgs ==
    {<<VUdata>>, <<VUdata, VStr(D[1].name)>>}
    \cup {<<VUdata, t, h>> : t \in TypeArgs, h \in HookArgs}

\* hooks bound by the names of the seven callback types
NamedCallbackSetArgs ==
    {<<VUdata, VStr(D[i].name), VFun(h)>> : i \in 1..7, h \in Hooks}

\* the callback type a name stands for
TypeOf(stk) == callback_type_from_string(lua_tostring(Arg(stk, 2)))

Outcomes == {"ok", "error"}

AllRcs == {MOSQ_ERR_SUCCESS, MOSQ_ERR_INVAL, MOSQ_ERR_NOMEM, MOSQ_ERR_PROTOCOL,
           MOSQ_ERR_NOT_SUPPORTED, MOSQ_ERR_NO_CONN, MOSQ_ERR_CONN_LOST,
           MOSQ_ERR_PAYLOAD_SIZE, MOSQ_ERR_ERRNO, MOSQ_ERR_TLS, MOSQ_ERR_EAI}

(***************************************************************************)
(* Specifications.                                                         *)
(***************************************************************************)
\* every call of the binding, with every argument shape, on both threads
\* what reconnect_delay_set is called with
DelaySetArgs ==
    {<<VUdata>>,
     <<VUdata, VNum(1), VNum(8)>>,
     <<VUdata, VNum(1), VNum(8), VBool(TRUE)>>,
     <<VUdata, VNum(1), VNum(8), VBool(FALSE)>>,
     <<VUdata, VNum(2), VNum(8), VNil>>,
     <<VUdata, VStr(<<"3">>), VNum(8)>>,
     <<VUdata, VStr(<<"x">>)>>,
     <<VUdata, VNum(1), VTable>>}

\* version tokens: none, nil, the two recognized ones, one longer, one shorter,
\* one in capitals, the empty string, a number and a table
VersionSetArgs ==
    {<<VUdata>>, <<VUdata, VNil>>, <<VUdata, VStr(MQTTV31)>>, <<VUdata, VStr(MQTTV311)>>,
     <<VUdata, VStr(MQTTV311 \o <<"1">>)>>, <<VUdata, VStr(SubSeq(MQTTV31, 1, 6))>>,
     <<VUdata, VStr(<<"M", "Q", "T", "T", "V", "3", "1", "1">>)>>, <<VUdata, VStr(<<>>)>>,
     <<VUdata, VNum(311)>>, <<VUdata, VTable>>}

Next ==
    \/ mosq_init
    \/ mosq_cleanup
    \/ \E stk \in NewArgs, created \in BOOLEAN : mosq_new(stk, created)
    \/ ctx_destroy
    \/ \E stk \in ReinitialiseArgs, rc \in {MOSQ_ERR_SUCCESS, MOSQ_ERR_NOMEM} : ctx_reinitialise(stk, rc)
    \/ \E stk \in CallbackSetArgs : ctx_callback_set(stk)
    \/ \E op \in LoopOps : mosq_loop_call(op)
    \/ \E rc \in AllRcs : mosq_loop_return(rc)
    \/ \E op \in CmdOps : ctx_command_call(op)
    \/ \E rc \in AllRcs : ctx_command_return(rc)
    \/ \E k \in CallbackTypes : \E a \in EventArgs(k, mosq.conn) : engine_event(k, a)
    \/ \E outcome \in Outcomes : hook_return(outcome)
    \/ engine_use_after_free
    \/ \E rc \in AllRcs : ctx_loop_start(rc)
    \/ \E force \in BOOLEAN : ctx_loop_stop(force)
    \/ \E k \in CallbackTypes : \E a \in EventArgs(k, mosq.conn) : thread_event(k, a)
    \/ \E outcome \in Outcomes : thread_hook_return(outcome)
    \/ \E ok \in BOOLEAN : engine_reconnect(ok)
    \/ \E stk \in DelaySetArgs, rc \in AllRcs : ctx_reconnect_delay_set(stk, rc)
    \/ thread_write_begin
    \/ thread_write_end
    \/ \E stk \in VersionSetArgs, rc \in AllRcs, ub \in NullCompared : ctx_version_set(stk, rc, ub)
    \/ \E stk \in CallbackSetArgs, a \in ConnackCodes \cup {MOSQ_LOG_DEBUG},
             seen \in Hooks \cup {"-", "crash"} :
          callback_set_during_dispatch(stk, a, seen)

Spec == Init /\ [][Next]_vars

\* The instance's life and its hook table: new, destroy, reinitialise and
\* callback_set, with every argument shape.
NextBinding ==
    \/ \E stk \in NewArgs, created \in BOOLEAN : mosq_new(stk, created)
    \/ ctx_destroy
    \/ \E stk \in ReinitialiseArgs, rc \in {MOSQ_ERR_SUCCESS, MOSQ_ERR_NOMEM} : ctx_reinitialise(stk, rc)
    \/ \E stk \in CallbackSetArgs : ctx_callback_set(stk)

SpecBinding == Init /\ [][NextBinding]_vars

\* Dispatch on the caller's thread.  The application binds hooks by name, for
\* one callback type in a run; it calls the loop functions and the commands,
\* also from inside a hook; the engine reports events and runs the hooks.
\* the engine's codes and event arguments this specification is run with
DispatchRcs == {MOSQ_ERR_SUCCESS, MOSQ_ERR_INVAL, MOSQ_ERR_NO_CONN, MOSQ_ERR_CONN_LOST,
                MOSQ_ERR_ERRNO}

DispatchArgs(k) ==
    IF k = CONNECT THEN {CONN_ACCEPT, CONN_REF_NO_AUTH}
    ELSE IF k = DISCONNECT THEN {0, MOSQ_ERR_CONN_LOST}
    ELSE {MOSQ_LOG_DEBUG, 1}

NextDispatch ==
    \/ \E created \in BOOLEAN : mosq_new(<<>>, created)
    \/ ctx_destroy
    \/ \E stk \in NamedCallbackSetArgs : mosq.cb \subseteq {TypeOf(stk)} /\ ctx_callback_set(stk)
    \/ \E op \in {"loop", "loop_read"} : mosq_loop_call(op)
    \/ \E rc \in DispatchRcs : mosq_loop_return(rc)
    \/ \E op \in {"connect", "disconnect"} : ctx_command_call(op)
    \/ \E rc \in DispatchRcs : ctx_command_return(rc)
    \/ \E k \in CallbackTypes : \E a \in DispatchArgs(k) : engine_event(k, a)
    \/ \E outcome \in Outcomes : hook_return(outcome)
    \/ engine_use_after_free

SpecDispatch == Init /\ [][NextDispatch]_vars

\* The engine's loop thread beside the caller's thread.  The application binds
\* the connect hook and the log hook, starts and stops the thread, and goes on
\* calling loop and the commands; the engine reports events on either thread.
ThreadedCallbackSetArgs == {<<VUdata, VStr(D[i].name), VFun("h1")>> : i \in {1, 7}}

NextThreaded ==
    \/ \E created \in BOOLEAN : mosq_new(<<>>, created)
    \/ \E stk \in ThreadedCallbackSetArgs : ctx_callback_set(stk)
    \/ mosq_loop_call("loop")
    \/ \E rc \in AllRcs : mosq_loop_return(rc)
    \/ \E op \in {"connect", "disconnect"} : ctx_command_call(op)
    \/ \E rc \in AllRcs : ctx_command_return(rc)
    \/ \E k \in CallbackTypes : \E a \in EventArgs(k, mosq.conn) : engine_event(k, a)
    \/ \E outcome \in Outcomes : hook_return(outcome)
    \/ \E rc \in AllRcs : ctx_loop_start(rc)
    \/ \E force \in BOOLEAN : ctx_loop_stop(force)
    \/ \E k \in CallbackTypes : \E a \in EventArgs(k, mosq.conn) : thread_event(k, a)
    \/ \E outcome \in Outcomes : thread_hook_return(outcome)
    \/ \E ok \in BOOLEAN : engine_reconnect(ok)

SpecThreaded == Init /\ [][NextThreaded]_vars

\* The library and the instances it serves: init, cleanup, new, destroy and
\* callback_set.
NextLibrary ==
    \/ mosq_init
    \/ mosq_cleanup
    \/ \E stk \in NewArgs, created \in BOOLEAN : mosq_new(stk, created)
    \/ ctx_destroy
    \/ \E stk \in ThreadedCallbackSetArgs : ctx_callback_set(stk)

SpecLibrary == Init /\ [][NextLibrary]_vars

\* One session driven by the caller's thread in single steps: the application
\* binds the connect hook and the disconnect hook, connects, disconnects
\* and steps the loop; the engine answers with every code and reports every
\* event.
SessionCallbackSetArgs == {<<VUdata, VStr(D[i].name), VFun("h1")>> : i \in {1, 2}}

NextSession ==
    \/ \E created \in BOOLEAN : mosq_new(<<>>, created)
    \/ \E stk \in SessionCallbackSetArgs : ctx_callback_set(stk)
    \/ \E op \in {"loop", "loop_read"} : mosq_loop_call(op)
    \/ \E rc \in AllRcs : mosq_loop_return(rc)
    \/ \E op \in {"connect", "disconnect"} : ctx_command_call(op)
    \/ \E rc \in AllRcs : ctx_command_return(rc)
    \/ \E k \in CallbackTypes : \E a \in EventArgs(k, mosq.conn) : engine_event(k, a)
    \/ \E outcome \in Outcomes : hook_return(outcome)

SpecSession == Init /\ [][NextSession]_vars

\* Every operation that ends in mosq__pstatus, with every code of the engine:
\* the commands, the loop steps, loop_start and loop_stop on an instance with
\* no hook bound.
NextStatus ==
    \/ \E created \in BOOLEAN : mosq_new(<<>>, created)
    \/ \E op \in LoopOps : mosq_loop_call(op)
    \/ \E rc \in AllRcs : mosq_loop_return(rc)
    \/ \E op \in CmdOps : ctx_command_call(op)
    \/ \E rc \in AllRcs : ctx_command_return(rc)
    \/ \E k \in CallbackTypes : \E a \in EventArgs(k, mosq.conn) : engine_event(k, a)
    \/ \E rc \in AllRcs : ctx_loop_start(rc)
    \/ \E force \in BOOLEAN : ctx_loop_stop(force)

SpecStatus == Init /\ [][NextStatus]_vars

\* Publishing while the engine's thread runs: the application binds the
\* publish hook, connects, starts the thread and publishes and subscribes
\* while the thread reports what it has sent.
PublishCallbackSetArgs == {<<VUdata, VStr(D[3].name), VFun("h1")>>}

NextPublish ==
    \/ \E created \in BOOLEAN : mosq_new(<<>>, created)
    \/ \E stk \in PublishCallbackSetArgs : ctx_callback_set(stk)
    \/ \E op \in {"connect", "publish", "subscribe"} : ctx_command_call(op)
    \/ \E rc \in DispatchRcs : ctx_command_return(rc)
    \/ \E rc \in AllRcs : ctx_loop_start(rc)
    \/ \E force \in BOOLEAN : ctx_loop_stop(force)
    \/ \E k \in CallbackTypes : \E a \in DispatchArgs(k) : thread_event(k, a)
    \/ \E outcome \in Outcomes : thread_hook_return(outcome)
    \/ \E ok \in BOOLEAN : engine_reconnect(ok)

SpecPublish == Init /\ [][NextPublish]_vars

\* Stopping the engine's thread: the application connects, starts the thread,
\* publishes and stops the thread, forced or not, while the thread completes
\* the handshake and writes the publish to the socket.
NextStop ==
    \/ \E created \in BOOLEAN : mosq_new(<<>>, created)
    \/ \E op \in {"connect", "publish", "disconnect"} : ctx_command_call(op)
    \/ \E rc \in DispatchRcs : ctx_command_return(rc)
    \/ \E rc \in AllRcs : ctx_loop_start(rc)
    \/ \E force \in BOOLEAN : ctx_loop_stop(force)
    \/ \E k \in CallbackTypes : \E a \in EventArgs(k, mosq.conn) : thread_event(k, a)
    \/ \E ok \in BOOLEAN : engine_reconnect(ok)
    \/ thread_write_begin
    \/ thread_write_end

SpecStop == Init /\ [][NextStop]_vars

\* Choosing the protocol version: the application creates the instance, sets
\* the version with every token, binds hooks and connects.
NextVersion ==
    \/ \E stk \in NewArgs, created \in BOOLEAN : mosq_new(stk, created)
    \/ \E stk \in VersionSetArgs, rc \in AllRcs, ub \in NullCompared : ctx_version_set(stk, rc, ub)
    \/ \E stk \in ThreadedCallbackSetArgs : ctx_callback_set(stk)
    \/ \E op \in {"connect"} : ctx_command_call(op)
    \/ \E rc \in DispatchRcs : ctx_command_return(rc)

SpecVersion == Init /\ [][NextVersion]_vars

\* Rebinding while the engine's thread dispatches: the application binds the
\* log hook, connects, starts the thread and binds the log hook again, between
\* two dispatches of the thread or during one.
RebindCallbackSetArgs == {<<VUdata, VStr(D[7].name), VFun(h)>> : h \in Hooks}

NextRebind ==
    \/ \E created \in BOOLEAN : mosq_new(<<>>, created)
    \/ \E stk \in RebindCallbackSetArgs : ctx_callback_set(stk)
    \/ \E op \in {"connect"} : ctx_command_call(op)
    \/ \E rc \in DispatchRcs : ctx_command_return(rc)
    \/ \E rc \in AllRcs : ctx_loop_start(rc)
    \/ \E k \in CallbackTypes : \E a \in EventArgs(k, mosq.conn) : thread_event(k, a)
    \/ \E outcome \in Outcomes : thread_hook_return(outcome)
    \/ \E ok \in BOOLEAN : engine_reconnect(ok)
    \/ \E stk \in RebindCallbackSetArgs, seen \in Hooks \cup {"-", "crash"} :
          callback_set_during_dispatch(stk, MOSQ_LOG_DEBUG, seen)

SpecRebind == Init /\ [][NextRebind]_vars

\* Run-forever mode: the application sets the reconnect policy, binds the
\* disconnect hook, connects and calls loop_forever; the engine loses the
\* connection, retries and is refused or accepted; the hook disconnects.
ForeverCallbackSetArgs == {<<VUdata, VStr(D[2].name), VFun("h1")>>}

NextForever ==
    \/ \E created \in BOOLEAN : mosq_new(<<>>, created)
    \/ \E stk \in ForeverCallbackSetArgs : ctx_callback_set(stk)
    \/ \E stk \in DelaySetArgs, rc \in AllRcs :
          mosq.n = 0 /\ main = <<>> /\ ctx_reconnect_delay_set(stk, rc)
    \/ mosq_loop_call("loop_forever")
    \/ \E rc \in AllRcs : mosq_loop_return(rc)
    \/ \E op \in {"connect", "disconnect"} : ctx_command_call(op)
    \/ \E rc \in DispatchRcs : ctx_command_return(rc)
    \/ \E k \in CallbackTypes : \E a \in EventArgs(k, mosq.conn) : engine_event(k, a)
    \/ \E outcome \in Outcomes : hook_return(outcome)
    \/ \E ok \in BOOLEAN : engine_reconnect(ok)

SpecForever == Init /\ [][NextForever]_vars

ReinitialiseRejectsBeforeTouching ==
    [][(ret'.op = "reinitialise" /\ ret'.in.c = "anon_persistent")
        => /\ ret'.res = "argerror"
           /\ ~ret'.eng
           /\ UNCHANGED <<ctx, mosq, registry, bound>>]_vars

\* reinitialise(nil, false) has been rejected on a live instance with a hook bound
ReinitialiseRejected ==
    /\ ret.op = "reinitialise" /\ ret.in.c = "anon_persistent" /\ ret.res = "argerror"
    /\ ctx_check(ctx)
    /\ ~AllUnset(ctx)

\* C3: reinitialise on a live instance with an id, or with clean_session true,
\* reaches the engine's reinitialise and leaves all seven slots unset.
ReinitialiseValidSucceeds ==
    (ret.op = "reinitialise" /\ ctx_check(ctx)
        /\ ret.in.c \in {"anon", "named", "named_persistent"})
    => (ret.eng /\ AllUnset(ctx))

\* C4: the hook the engine's callback invokes for an event is the one the last
\* successful callback_set for that callback type was given.
ReplacedHookNeverInvoked ==
    [][(InHook(main') /\ Len(main') > Len(main) /\ ~crashed')
        => Top(main').fn = bound[Top(main').k]]_vars

\* h2 runs for an event whose callback type was bound to h1 before
SecondHookInvoked ==
    /\ InHook(main) /\ ~crashed
    /\ Top(main).fn = "h2"
    /\ \E r \in 1..registry.n : registry.v[r] = "h1" /\ ctx[Field(Top(main).k)] # r

\* C5: callback_set given one of the seven callback types, by number or by
\* name, and a function, succeeds and binds the slot of that type.
CallbackSetByNumberOrName ==
    (ret.op = "callback_set" /\ ctx_check(ctx)
        /\ ret.in.c \in {"number", "name"} /\ ret.in.h = "fn")
    => (ret.res = "true" /\ lua_rawgeti(registry, ctx[Field(ret.in.k)]) \in Hooks)

\* C6: callback_set given something that is none of the seven callback types,
\* or a hook that is no function, raises an argument error, leaves the seven
\* slots and the engine object as they were and holds no new reference.
CallbackSetRejectsCleanly ==
    [][(ret'.op = "callback_set" /\ (ret'.in.c = "other" \/ ret'.in.h = "-"))
        => /\ ret'.res = "argerror"
           /\ UNCHANGED <<ctx, mosq, bound>>
           /\ Held(registry') = Held(registry)]_vars

\* an unknown callback type has been rejected after its hook was referenced,
\* on a live instance with a hook bound
CallbackSetRejected ==
    /\ ret.op = "callback_set" /\ ret.in.c = "other" /\ ret.in.h = "fn"
    /\ ret.res = "argerror"
    /\ ctx_check(ctx)
    /\ ~AllUnset(ctx)
    /\ registry.free # <<>>

\* C7: when a hook ends, with a value or with an error, the call the engine
\* runs in goes on with the instance, the engine object, the registry and the
\* last result as they were; and what a loop call hands back is the status of
\* the engine's code, whether or not a hook it ran has raised an error.
HookErrorContained ==
    [][/\ (InHook(main) /\ Len(main') < Len(main))
          => /\ main' \in {HookEnded(Pop(main), o) : o \in Outcomes}
             /\ UNCHANGED <<ctx, mosq, registry, ret, bound, crashed>>
       /\ (InEngine(main) /\ Top(main).f \in LoopOps /\ Len(main') < Len(main))
          => /\ main' = Pop(main)
             /\ \E rc \in LoopReturnRcs([Top(main) EXCEPT !.herr = FALSE], mosq.conn) :
                    ret' = RetOf(Top(main).f, NoIn, rc, mosq__pstatus(rc))
             /\ UNCHANGED <<mosq, registry, bound>>]_vars

\* a hook runs inside a loop call in which an earlier hook has raised an error
HookInvokedAfterHookError ==
    /\ Len(main) >= 2
    /\ InHook(main) /\ ~crashed
    /\ main[2].f \in LoopOps
    /\ main[2].herr

\* C8: whenever a hook is being invoked, on either thread, ctx->L is bound.
HookHasCallContext ==
    (InHook(main) \/ InHook(bg)) => ctx.L # "NULL"

\* C9: ctx->L is bound only while the caller is inside a loop call.
CallContextOnlyInsideLoop ==
    ctx.L # "NULL" => \E i \in 1..Len(main) : main[i].f \in LoopOps

\* C10: a hook on the loop thread never runs while the caller's thread runs
\* the application's code or another hook.
HooksSerialized ==
    (InHook(bg) /\ ~crashed) => ~(main = <<>> \/ InHook(main))

(***************************************************************************)
(* C11: over any sequence of destroy calls and finalizations on one        *)
(* instance the engine handle and the hook references are released at most *)
(* once: once the instance is destroyed no step releases the handle or a   *)
(* reference again, and a destroy on it is rejected with an error before   *)
(* it reaches the engine.  Finalization runs ctx_destroy through __gc,     *)
(* which the metatable of a destroyed instance no longer has.              *)
(***************************************************************************)
Slots(c) == [k \in CallbackTypes |-> c[Field(k)]]

Destroyed == ctx.meta = "empty"

DestroyIsTerminal ==
    /\ (ret.op = "destroy" /\ ret.eng)
          => (ret.res = "true" /\ ~crashed /\ Destroyed /\ Held(registry) = {})
    /\ Destroyed => (mosq.cb = {} /\ ~mosq.alive /\ (ret.eng => ret.op = "destroy"))

(***************************************************************************)
(* C15: init and cleanup are idempotent over any sequence of module load,  *)
(* init and cleanup: the init primitive is invoked only on a library that  *)
(* is down, the cleanup primitive only on a library that is up, and the    *)
(* initialized flag always equals the state of the library.                *)
(***************************************************************************)
LibraryInitIdempotent ==
    /\ lib.mosq_initialized = lib.up
    /\ lib.prim = "init" => ~lib.was_up
    /\ lib.prim = "cleanup" => lib.was_up

(***************************************************************************)
(* C16: while an instance is live, the library is initialized.             *)
(***************************************************************************)
LiveInstanceHasLibrary == mosq.alive => lib.up

(***************************************************************************)
(* C13: for every fallible operation and every code the engine returns     *)
(* from it, the outcome is a success indicator, a raised error or a        *)
(* structured failure (nil, code, description), never no value at all.     *)
(***************************************************************************)
EveryCodeGivesAnOutcome ==
    ret.rc >= 0 => ret.res \in {"true", "value", "error", "nil3", "errno3"}

MessageIdsIncrease ==
    [][/\ mosq'.mid >= mosq.mid
       /\ (/\ main # <<>>
           /\ Top(main).f \in {"publish", "subscribe", "unsubscribe"}
           /\ main' = Pop(main)
           /\ mosq'.mid # mosq.mid)
             => (ret'.res = "value" /\ ret'.v = mosq'.mid /\ ret'.v > mosq.mid)]_vars

(***************************************************************************)
(* C18: the connect hook is invoked with (success, code, reason) where     *)
(* code is the connect return code the engine reported, success is true    *)
(* if and only if the code is 0, and reason is the fixed text of the code, *)
(* or the reserved text for a code without one.                            *)
(***************************************************************************)
ConnectReason(code) ==
    CASE code = 0 -> "connection accepted"
      [] code = 1 -> "connection refused - incorrect protocol version"
      [] code = 2 -> "connection refused - invalid client identifier"
      [] code = 3 -> "connection refused - server unavailable"
      [] code = 4 -> "connection refused - bad username or password"
      [] code = 5 -> "connection refused - not authorised"
      [] code = 6 -> "connection refused - TLS error"
      [] OTHER -> "reserved for future use"

ConnectHookArgs ==
    \A i \in 1..Len(main) :
        (main[i].f = "hook" /\ main[i].k = CONNECT /\ ~crashed)
            => /\ main[i].args.success = (main[i].a = 0)
               /\ main[i].args.str = ConnectReason(main[i].a)
               /\ main[i].fn = bound[CONNECT]

\* connect() and one loop step: the connect hook runs with success and code 0
ConnectAccepted ==
    /\ ~crashed
    /\ Len(main) = 2
    /\ main[1].f = "hook" /\ main[1].k = CONNECT /\ main[1].a = 0
    /\ main[1].args.success
    /\ main[2].f = "loop"
    /\ mosq.conn = "Connected"

(***************************************************************************)
(* C19: the disconnect hook is invoked with arguments that identify the    *)
(* cause: after a disconnect() of the client it gets success = true, code  *)
(* 0 and 'client-initiated disconnect'; after a drop the client did not    *)
(* request it gets success = false, the non-zero error code and            *)
(* 'unexpected disconnect'.  Either way the instance is Disconnected.      *)
(***************************************************************************)
DisconnectHookStarts ==
    /\ Len(main') = Len(main) + 1
    /\ main'[1].f = "hook"
    /\ main'[1].k = DISCONNECT
    /\ ~crashed'

DisconnectHookArgs ==
    [][DisconnectHookStarts =>
         /\ mosq'.conn = "Disconnected"
         /\ IF mosq.conn = "Disconnecting"
            THEN /\ main'[1].a = 0
                 /\ main'[1].args = [success |-> TRUE, str |-> "client-initiated disconnect"]
            ELSE /\ main'[1].a # 0
                 /\ main'[1].args = [success |-> FALSE, str |-> "unexpected disconnect"]]_vars

\* the disconnect hook runs for a connection the engine lost
UnexpectedDisconnectReported ==
    /\ ~crashed
    /\ InHook(main)
    /\ Top(main).k = DISCONNECT
    /\ Top(main).a = MOSQ_ERR_CONN_LOST
    /\ ~Top(main).args.success
    /\ mosq.conn = "Disconnected"

(***************************************************************************)
(* C20: in single-step mode the engine never reconnects on its own (a      *)
(* Disconnected instance leaves that state only by a connect or reconnect  *)
(* of the caller), and the step in which the connection was lost returns   *)
(* its error to the caller as a structured failure (nil, code,             *)
(* description).                                                           *)
(***************************************************************************)
SingleStepReturnsFailure ==
    [][/\ (mosq.conn = "Disconnected" /\ mosq'.conn # "Disconnected")
            => (main # <<>> /\ Top(main).f \in {"connect", "reconnect"} /\ main' = Pop(main))
       /\ (/\ main # <<>>
           /\ Top(main).f \in {"loop", "loop_read", "loop_write", "loop_misc"}
           /\ Top(main).a # 0
           /\ main' = Pop(main))
             => (ret'.res \in {"nil3", "errno3"} /\ ret'.rc = Top(main).a)]_vars

(***************************************************************************)
(* C21: in run-forever mode an unexpected disconnect or a refused          *)
(* handshake does not make the loop return: the instance enters            *)
(* Reconnecting and leaves it only to retry the handshake, and the loop    *)
(* returns only with a fatal error or after the client's disconnect.       *)
(***************************************************************************)
InForever == InEngine(main) /\ Top(main).f = "loop_forever"

RECURSIVE Pow2(_)
Pow2(e) == IF e <= 0 THEN 1 ELSE 2 * Pow2(e - 1)

ClaimedDelay(rp, n) ==
    IF rp.exponential THEN Min(rp.base * Pow2(n - 1), rp.max) ELSE rp.base

DelayAsClaimed ==
    /\ mosq.conn = "Reconnecting"
          => /\ mosq.n >= 1
             /\ mosq.wait = ClaimedDelay(mosq.rp, mosq.n)
             /\ mosq.wait <= mosq.rp.max
    /\ (ret.op = "reconnect_delay_set" /\ ret.res = "true")
          => /\ mosq.rp.exponential = (ret.in.c # "false")
             /\ ret.in.k >= 0 => mosq.rp.base = ret.in.k

StopMidWrite ==
    /\ MainInLua
    /\ ctx.meta # "none"
    /\ ctx_check(ctx)
    /\ mosq.thread
    /\ mosq.writing

ThreadStops == mosq.thread /\ ~mosq'.thread

StopReturns ==
    StopMidWrite => /\ ENABLED ctx_loop_stop(TRUE)
                    /\ ~ENABLED ctx_loop_stop(FALSE)

StopLeavesNoThread ==
    ThreadStops =>
        /\ ret'.op = "loop_stop" /\ ret'.res = "true"
        /\ bg' = <<>>
        /\ ~mosq'.writing
        /\ ctx'.L = "NULL"
        /\ mosq.writing => ret'.in.c = "true" /\ mosq'.conn = "Disconnected"
        /\ ret'.in.c = "false" =>
              /\ ~mosq.writing
              /\ mosq.conn = "Connected" => mosq'.conn = "Connected"

ForcedStopReturnsControl == []StopReturns /\ [][StopLeavesNoThread]_vars

\* a forced stop has just abandoned a write
ForcedStopMidWrite ==
    /\ ret.op = "loop_stop" /\ ret.res = "true" /\ ret.in.c = "true"
    /\ ~mosq.thread
    /\ mosq.conn = "Disconnected"
    /\ mosq.mid >= 1
    /\ ctx.L = "NULL"

(***************************************************************************)
(* C24: version_set is total: called on a valid instance with any token,   *)
(* nil and unrecognized ones included, it completes without failing, and   *)
(* it selects MQTT v3.1.1 if and only if the token is exactly "mqttv311",  *)
(* v3.1 otherwise.                                                         *)
(***************************************************************************)
VersionTokens == {"none", "nil", "string", "number"}

VersionSetTotal ==
    (ret.op = "version_set" /\ ret.in.c \in VersionTokens)
        => /\ ~crashed
           /\ ret.res = "true"
           /\ mosq.protocol = MQTT_PROTOCOL_V311 <=> ret.in.h = "mqttv311"

(***************************************************************************)
(* C25: binding a hook for a kind that already has one releases the        *)
(* previous reference: the number of hook references held in the registry  *)
(* equals the number of bound slots of the instance (at most seven), and   *)
(* none is held once the instance is destroyed.                            *)
(***************************************************************************)
BoundSlots == {k \in CallbackTypes : Slots(ctx)[k] >= 0}

HeldMatchesBoundSlots ==
    /\ Cardinality(Held(registry)) <= Cardinality(CallbackTypes)
    /\ ~Destroyed => Cardinality(Held(registry)) = Cardinality(BoundSlots)
    /\ Destroyed => Held(registry) = {}

(***************************************************************************)
(* C26: callback_set may run while the engine's thread is dispatching:     *)
(* every dispatch of a callback type on the thread invokes the hook bound  *)
(* before the callback_set or the hook it binds, never something else, and *)
(* a dispatch that starts after callback_set has returned invokes the new  *)
(* hook.                                                                   *)
(***************************************************************************)
ThreadDispatches == InHook(bg') /\ Len(bg') > Len(bg)

DispatchSeesOldOrNewHook ==
    [][/\ ThreadDispatches =>
             /\ ~crashed'
             /\ Top(bg').fn \in Hooks
             /\ Top(bg').fn \in {bound[Top(bg').k], bound'[Top(bg').k]}
       /\ (~crashed /\ ret' # ret /\ ret'.op = "callback_set") => ~crashed']_vars

(***************************************************************************)
(* C27: the loop operations are re-entrant with respect to ctx->L: when a  *)
(* hook invoked during an outer loop operation calls a loop operation on   *)
(* the same instance and that inner call returns, ctx->L is still bound    *)
(* for the rest of the outer operation.                                    *)
(***************************************************************************)
InnerLoopReturns ==
    /\ Len(main) >= 3
    /\ main[1].f \in LoopOps
    /\ Top(main).f \in LoopOps
    /\ main' = Pop(main)

InnerLoopKeepsContext == [][InnerLoopReturns => ctx'.L # "NULL"]_vars

====
